---------------------------- MODULE Spec2Model ----------------------------
(***************************************************************************)
(* State-machine model of src/bot.py: the coin-toss betting bot.           *)
(*                                                                         *)
(* Every incoming Telegram message is handled by its own coroutine; the    *)
(* dispatcher runs the handlers of different updates concurrently, and a   *)
(* handler can be descheduled at every await.  One action of the model is  *)
(* the code of a handler between two awaits that touch shared state (the   *)
(* SQLite database, the outgoing chat).  Each database call opens its own  *)
(* connection and commits once, so one call is one atomic step.            *)
(*                                                                         *)
(* Fixed-point encodings (TLC has integers only):                          *)
(*   - the multipliers 1.75 and 8.0 are MULT_SIDE/MultDen, MULT_EDGE/MultDen*)
(*   - x = n / 2**64 is kept at resolution 1/XScale; the thresholds        *)
(*     P_HEADS = 0.495 and P_EDGE = 0.010 are counted in the same unit.    *)
(* SHA-256 and HMAC-SHA256 are library code; they are modelled as fixed    *)
(* deterministic functions of their arguments over the bounded seed sets.  *)
(***************************************************************************)
EXTENDS Integers, Sequences, FiniteSets

(* ------------------------------ CONFIG -------------------------------- *)

MIN_BET == 100

MAX_BET == 5000

\* MULT_SIDE = 1.75 and MULT_EDGE = 8.0, in units of 1/MultDen.
MultDen == 100

MULT_SIDE == 175

MULT_EDGE == 800

\* x = n / XScale stands for x = n / 2**64.
XScale == 1000

\* P_HEADS = 0.495 and P_EDGE = 0.010 in units of 1/XScale.
P_HEADS == 495

P_EDGE == 10

(* ------------------------------ bounds -------------------------------- *)

\* Number of accounts.
NUsers == 2

\* Number of incoming bet messages (each is handled by its own coroutine).
MaxMsgs == 2

\* secrets.token_hex(32) / token_hex(16) draw from 0..MaxServerSeed / 0..MaxClientSeed.
MaxServerSeed == 2

MaxClientSeed == 0

\* Seeds tried by the direct calls of rng_roll (covers every x in 0..XScale-1).
PureMaxSeed == 999

\* Number of incoming /withdraw messages (each is handled by its own coroutine).
MaxWithdraws == 2

Users == 1..NUsers

Msgs == 1..MaxMsgs

Sides == {"heads", "tails", "edge"}

\* Texts matching ^\d+$ that users send as a stake.
StakeInputs == {50, 100, 1000}

\* Balances the accounts hold when the handlers of the model start.
InitBalances == {100, 1000}

ServerSeeds == 0..MaxServerSeed

ClientSeeds == 0..MaxClientSeed

WMsgs == 1..MaxWithdraws

VARIABLES
    balance,         \* users.balance, by user_id
    pending_choice,  \* pending_choice: user_id -> side ("none": no entry)
    bets,            \* the bets table, in insertion (id) order
    sent,            \* messages the bot has sent in reply
    pc,              \* per message: the await its handler stands at
    loc,             \* per message: the handler's local variables
    init_balance,    \* history: the balances at the start
    applied,         \* history: every committed add_balance, by message
    call,            \* a direct call of a pure function and its result
    deposits,        \* the deposits table, in insertion (id, ts) order
    withdrawals,     \* the withdrawals table, in insertion (id) order
    ext_refunded,    \* per deposit: what Telegram has refunded of its charge
    wpc,             \* per /withdraw message: the await its handler stands at
    wloc             \* per /withdraw message: the handler's local variables

\* The state of the withdrawals.
wVars == <<deposits, withdrawals, ext_refunded, wpc, wloc>>

vars == <<balance, pending_choice, bets, sent, pc, loc, init_balance, applied, call,
          deposits, withdrawals, ext_refunded, wpc, wloc>>

mainVars == <<balance, pending_choice, bets, sent, pc, loc, init_balance, applied,
              deposits, withdrawals, ext_refunded, wpc, wloc>>

(* ------------------------- Provably Fair RNG -------------------------- *)

\* hashlib.sha256(server_seed.encode()).hexdigest()
Sha256(seed) == (seed * 37 + 11) % 101

make_commit(server_seed) == Sha256(server_seed)

\* n / 2**64 for n = the first 8 bytes of HMAC-SHA256(key, "{client_seed}:{nonce}"),
\* at resolution 1/XScale.
HmacPrefix(key, client_seed, nonce) ==
    (key * 450 + key * key * 950 + client_seed * 7 + nonce * 100) % XScale

\* rng_roll with the first interval closed on the right (x <= P_HEADS).
rng_roll_heads_closed(server_seed, client_seed, nonce) ==
    LET x == HmacPrefix(server_seed, client_seed, nonce)
    IN  IF x <= P_HEADS THEN <<"heads", x>>
        ELSE IF x < P_HEADS + P_EDGE THEN <<"edge", x>>
        ELSE <<"tails", x>>

\* rng_roll with the intervals in the order tails, edge, heads.
rng_roll_tails_first(server_seed, client_seed, nonce) ==
    LET x == HmacPrefix(server_seed, client_seed, nonce)
    IN  IF x < P_HEADS THEN <<"tails", x>>
        ELSE IF x < P_HEADS + P_EDGE THEN <<"edge", x>>
        ELSE <<"heads", x>>

rng_roll(server_seed, client_seed, nonce) ==
    LET x == HmacPrefix(server_seed, client_seed, nonce)
    IN  IF x < P_HEADS THEN <<"heads", x>>
        ELSE IF x < P_HEADS + P_EDGE THEN <<"edge", x>>
        ELSE <<"tails", x>>

\* Python 3 round() of the exact value num/den (den > 0): to nearest, ties to even.
PyRound(num, den) ==
    LET q == num \div den
        r == num % den
    IN  IF 2 * r < den THEN q
        ELSE IF 2 * r > den THEN q + 1
        ELSE IF q % 2 = 0 THEN q ELSE q + 1

\* payout_for returning the stake on a miss.
payout_for_refund_miss(outcome, chosen, stake) ==
    IF outcome = "edge" THEN PyRound(stake * MULT_EDGE, MultDen)
    ELSE IF outcome = chosen THEN PyRound(stake * MULT_SIDE, MultDen)
    ELSE stake

\* payout_for paying the edge multiplier only to a bet on edge.
payout_for_edge_needs_choice(outcome, chosen, stake) ==
    IF outcome = chosen
    THEN (IF outcome = "edge" THEN PyRound(stake * MULT_EDGE, MultDen)
          ELSE PyRound(stake * MULT_SIDE, MultDen))
    ELSE 0

payout_for(outcome, chosen, stake) ==
    IF outcome = "edge" THEN PyRound(stake * MULT_EDGE, MultDen)
    ELSE IF outcome = chosen THEN PyRound(stake * MULT_SIDE, MultDen)
    ELSE 0

(* -------------------------------- DB ---------------------------------- *)

\* SELECT balance FROM users WHERE user_id=?  (a missing row is created with 0)
get_balance(uid) == balance[uid]

\* UPDATE users SET balance = balance + ? WHERE user_id=?  ; commit
add_balance(uid, delta) == [balance EXCEPT ![uid] = @ + delta]

(* ------------------------------ handlers ------------------------------ *)

NoLocals ==
    [uid |-> 0, stake |-> 0, side |-> "none", bal |-> 0,
     server_seed |-> 0, client_seed |-> 0, nonce |-> 0, commit |-> 0,
     outcome |-> "none", x |-> 0, prize |-> 0, bal2 |-> 0]

NoCall ==
    [fn |-> "none", server_seed |-> 0, client_seed |-> 0, nonce |-> 0,
     outcome |-> "none", chosen |-> "none", stake |-> 0, x |-> 0, payout |-> 0,
     returned |-> FALSE]

\* A reply that is not a settlement.
Reply(m, kind) ==
    [mid |-> m, kind |-> kind, outcome |-> "none", stake |-> 0, prize |-> 0,
     bal2 |-> 0, commit |-> 0, server_seed |-> 0, client_seed |-> 0, nonce |-> 0]

\* The local variables of withdraw_cmd.  The fields from reversed on are
\* history: what this run got refunded by Telegram, what it took from the
\* balance, per row of rows the amount it got refunded, the rows whose partial
\* refund raised, the rows refunded in full by the fallback, the ids of the
\* deposits it wrote, the await that ended the run by an exception, the reply.
NoWLocals ==
    [uid |-> 0, amount |-> 0, bal |-> 0, rows |-> <<>>, idx |-> 0,
     to_refund |-> 0, auto_refunded |-> 0, chunk |-> 0, new_refunded |-> 0,
     reversed |-> 0, debited |-> 0, chunks |-> <<>>, failed |-> {}, fulls |-> {},
     written |-> {}, raised_at |-> "none", replied |-> "none"]

\* No deposit, no withdrawal, no /withdraw message.
WIdle ==
    /\ deposits = <<>>
    /\ withdrawals = <<>>
    /\ ext_refunded = <<>>
    /\ wpc = [w \in WMsgs |-> "new"]
    /\ wloc = [w \in WMsgs |-> NoWLocals]

Init ==
    /\ WIdle
    /\ balance \in [Users -> InitBalances]
    /\ init_balance = balance
    /\ pending_choice = [u \in Users |-> "none"]
    /\ bets = <<>>
    /\ sent = {}
    /\ pc = [m \in Msgs |-> "new"]
    /\ loc = [m \in Msgs |-> NoLocals]
    /\ applied = {}
    /\ call = NoCall

\* choose_side: the callback "side:<side>" of user u.
\* (Enabled while a bet message is still to come: pending_choice is read only by
\* place_bet_start, so a later choice changes nothing any handler reads.)
choose_side(u, side) ==
    /\ \E m \in Msgs : pc[m] = "new"
    /\ pending_choice' = [pending_choice EXCEPT ![u] = side]
    /\ UNCHANGED <<balance, bets, sent, pc, loc, init_balance, applied, call>>

\* place_bet, from the arrival of message m (user u, text stake) to its first await.
place_bet_start(m, u, stake) ==
    /\ pc[m] = "new"
    /\ \A k \in Msgs : k < m => pc[k] # "new"
    /\ IF ~(MIN_BET <= stake /\ stake <= MAX_BET)
       THEN /\ sent' = sent \cup {Reply(m, "bad_amount")}
            /\ pc' = [pc EXCEPT ![m] = "done"]
            /\ loc' = loc
       ELSE IF pending_choice[u] \notin Sides
       THEN /\ sent' = sent \cup {Reply(m, "no_side")}
            /\ pc' = [pc EXCEPT ![m] = "done"]
            /\ loc' = loc
       ELSE /\ sent' = sent
            /\ pc' = [pc EXCEPT ![m] = "get_balance"]
            /\ loc' = [loc EXCEPT ![m] = [NoLocals EXCEPT !.uid = u, !.stake = stake,
                                                          !.side = pending_choice[u]]]
    /\ UNCHANGED <<balance, pending_choice, bets, init_balance, applied, call>>

\* place_bet_get_balance debiting the stake before it tests the balance.
place_bet_get_balance_debit_first(m, server_seed, client_seed) ==
    /\ pc[m] = "get_balance"
    /\ balance' = add_balance(loc[m].uid, -loc[m].stake)
    /\ applied' = applied \cup {[mid |-> m, uid |-> loc[m].uid, delta |-> -loc[m].stake]}
    /\ sent' = sent \cup {Reply(m, "insufficient")}
    /\ pc' = [pc EXCEPT ![m] = "done"]
    /\ loc' = [loc EXCEPT ![m] = NoLocals]
    /\ UNCHANGED <<pending_choice, bets, init_balance, call>>

\* bal = await get_balance(uid); the test bal < stake; the seeds and the commit.
place_bet_get_balance(m, server_seed, client_seed) ==
    /\ pc[m] = "get_balance"
    /\ LET bal == get_balance(loc[m].uid)
       IN  IF bal < loc[m].stake
           THEN /\ sent' = sent \cup {Reply(m, "insufficient")}
                /\ pc' = [pc EXCEPT ![m] = "done"]
                /\ loc' = [loc EXCEPT ![m] = NoLocals]
           ELSE /\ sent' = sent
                /\ pc' = [pc EXCEPT ![m] = "debit"]
                /\ loc' = [loc EXCEPT ![m].bal = bal,
                                      ![m].server_seed = server_seed,
                                      ![m].client_seed = client_seed,
                                      ![m].nonce = 1,
                                      ![m].commit = make_commit(server_seed)]
    /\ UNCHANGED <<balance, pending_choice, bets, init_balance, applied, call>>

\* await add_balance(uid, -stake); then the roll and the payout.
place_bet_debit(m) ==
    /\ pc[m] = "debit"
    /\ LET l == loc[m]
           roll == rng_roll(l.server_seed, l.client_seed, l.nonce)
           prize == payout_for(roll[1], l.side, l.stake)
       IN  /\ balance' = add_balance(l.uid, -l.stake)
           /\ applied' = applied \cup {[mid |-> m, uid |-> l.uid, delta |-> -l.stake]}
           /\ loc' = [loc EXCEPT ![m].outcome = roll[1], ![m].x = roll[2],
                                 ![m].prize = prize]
           /\ pc' = [pc EXCEPT ![m] = IF prize # 0 THEN "credit" ELSE "log"]
    /\ UNCHANGED <<pending_choice, bets, sent, init_balance, call>>

\* if prize: await add_balance(uid, prize)
place_bet_credit(m) ==
    /\ pc[m] = "credit"
    /\ balance' = add_balance(loc[m].uid, loc[m].prize)
    /\ applied' = applied \cup {[mid |-> m, uid |-> loc[m].uid, delta |-> loc[m].prize]}
    /\ pc' = [pc EXCEPT ![m] = "log"]
    /\ UNCHANGED <<pending_choice, bets, sent, loc, init_balance, call>>

\* BetRow logging the nonce counted from 0.
BetRow_nonce_from_zero(m) ==
    LET l == loc[m]
    IN  [mid |-> m, user_id |-> l.uid, side |-> l.side, stake |-> l.stake,
         server_seed |-> l.server_seed, client_seed |-> l.client_seed,
         nonce |-> l.nonce - 1, commit_hash |-> l.commit, outcome |-> l.outcome,
         payout |-> l.prize]

\* The row place_bet inserts into bets (mid: the message it answers, history only).
BetRow(m) ==
    LET l == loc[m]
    IN  [mid |-> m, user_id |-> l.uid, side |-> l.side, stake |-> l.stake,
         server_seed |-> l.server_seed, client_seed |-> l.client_seed,
         nonce |-> l.nonce, commit_hash |-> l.commit, outcome |-> l.outcome,
         payout |-> l.prize]

\* place_bet_log whose INSERT is never committed.
place_bet_log_uncommitted(m) ==
    /\ pc[m] = "log"
    /\ pc' = [pc EXCEPT ![m] = "get_balance2"]
    /\ UNCHANGED <<balance, pending_choice, bets, sent, loc, init_balance, applied, call>>

\* INSERT INTO bets(...) ; commit
place_bet_log(m) ==
    /\ pc[m] = "log"
    /\ bets' = Append(bets, BetRow(m))
    /\ pc' = [pc EXCEPT ![m] = "get_balance2"]
    /\ UNCHANGED <<balance, pending_choice, sent, loc, init_balance, applied, call>>

\* bal2 = await get_balance(uid)
place_bet_get_balance2(m) ==
    /\ pc[m] = "get_balance2"
    /\ loc' = [loc EXCEPT ![m].bal2 = get_balance(loc[m].uid)]
    /\ pc' = [pc EXCEPT ![m] = "answer"]
    /\ UNCHANGED <<balance, pending_choice, bets, sent, init_balance, applied, call>>

\* Settlement disclosing a seed other than the one committed to.
Settlement_other_seed(m) ==
    LET l == loc[m]
    IN  [mid |-> m, kind |-> "settlement", outcome |-> l.outcome, stake |-> l.stake,
         prize |-> l.prize, bal2 |-> l.bal2, commit |-> l.commit,
         server_seed |-> l.server_seed + 1, client_seed |-> l.client_seed,
         nonce |-> l.nonce]

\* The settlement message of place_bet.
Settlement(m) ==
    LET l == loc[m]
    IN  [mid |-> m, kind |-> "settlement", outcome |-> l.outcome, stake |-> l.stake,
         prize |-> l.prize, bal2 |-> l.bal2, commit |-> l.commit,
         server_seed |-> l.server_seed, client_seed |-> l.client_seed,
         nonce |-> l.nonce]

\* await m.answer(...)
place_bet_answer(m) ==
    /\ pc[m] = "answer"
    /\ sent' = sent \cup {Settlement(m)}
    /\ pc' = [pc EXCEPT ![m] = "done"]
    /\ loc' = [loc EXCEPT ![m] = NoLocals]
    /\ UNCHANGED <<balance, pending_choice, bets, init_balance, applied, call>>

\* The awaits of place_bet: a database call or a send that raises ends the handler
\* there (place_bet has no try/except), and so does the end of the process.
AwaitPcs == {"get_balance", "debit", "credit", "log", "get_balance2", "answer"}

place_bet_raise(m) ==
    /\ pc[m] \in AwaitPcs
    /\ pc' = [pc EXCEPT ![m] = "done"]
    /\ loc' = [loc EXCEPT ![m] = NoLocals]
    /\ UNCHANGED <<balance, pending_choice, bets, sent, init_balance, applied, call>>

Next ==
    \/ \E u \in Users, side \in Sides : choose_side(u, side) /\ UNCHANGED wVars
    \/ \E m \in Msgs, u \in Users, stake \in StakeInputs : place_bet_start(m, u, stake) /\ UNCHANGED wVars
    \/ \E m \in Msgs, s \in ServerSeeds, c \in ClientSeeds : place_bet_get_balance(m, s, c) /\ UNCHANGED wVars
    \/ \E m \in Msgs : place_bet_debit(m) /\ UNCHANGED wVars
    \/ \E m \in Msgs : place_bet_credit(m) /\ UNCHANGED wVars
    \/ \E m \in Msgs : place_bet_log(m) /\ UNCHANGED wVars
    \/ \E m \in Msgs : place_bet_get_balance2(m) /\ UNCHANGED wVars
    \/ \E m \in Msgs : place_bet_answer(m) /\ UNCHANGED wVars
    \/ \E m \in Msgs : place_bet_raise(m) /\ UNCHANGED wVars

Spec == Init /\ [][Next]_vars

(* ---------------- direct calls of the pure functions ------------------ *)

PureSeeds == 0..PureMaxSeed

InitPure ==
    /\ WIdle
    /\ balance = [u \in Users |-> 0]
    /\ init_balance = balance
    /\ pending_choice = [u \in Users |-> "none"]
    /\ bets = <<>>
    /\ sent = {}
    /\ pc = [m \in Msgs |-> "new"]
    /\ loc = [m \in Msgs |-> NoLocals]
    /\ applied = {}
    /\ call = NoCall

\* rng_roll(server_seed, client_seed, nonce) called on its own.
call_rng_roll ==
    /\ call = NoCall
    /\ \E server_seed \in ServerSeeds, client_seed \in PureSeeds, nonce \in {1} :
          LET roll == rng_roll(server_seed, client_seed, nonce)
          IN  call' = [NoCall EXCEPT !.fn = "rng_roll", !.server_seed = server_seed,
                                     !.client_seed = client_seed, !.nonce = nonce,
                                     !.outcome = roll[1], !.x = roll[2],
                                     !.returned = TRUE]
    /\ UNCHANGED mainVars

\* payout_for(outcome, chosen, stake) called on its own.
call_payout_for ==
    /\ call = NoCall
    /\ \E outcome \in Sides, chosen \in Sides, stake \in MIN_BET..MAX_BET :
          call' = [NoCall EXCEPT !.fn = "payout_for", !.outcome = outcome,
                                 !.chosen = chosen, !.stake = stake,
                                 !.payout = payout_for(outcome, chosen, stake),
                                 !.returned = TRUE]
    /\ UNCHANGED mainVars

NextPure ==
    \/ call_rng_roll
    \/ call_payout_for

SpecPure == InitPure /\ [][NextPure]_vars

(* ------------------------------ withdraw_cmd ------------------------------ *)

\* The betting state, which withdraw_cmd neither reads nor writes.
betVars == <<pending_choice, bets, sent, pc, loc, init_balance, applied, call>>

\* The text after "/withdraw": digits tells whether parts[1].isdigit() holds
\* (false for a missing, signed or non-numeric argument), value is int(parts[1]).
WithdrawTexts ==
    {[digits |-> FALSE, value |-> 0]}
        \cup {[digits |-> TRUE, value |-> a] : a \in {0, 500, 700, 1500}}

\* A deposits row (id = its index in deposits, which is also its ts order).
Deposit(u, a) == [user_id |-> u, amount |-> a, refunded |-> 0]

\* Histories before the first /withdraw: what user 1 holds and the payments
\* recorded by on_successful_payment, none of them refunded yet.  User 2 paid
\* 300 once where listed.  (A balance other than the sum of the payments comes
\* from settled bets and /give.)
WConfigs ==
    { [bal |-> <<1000, 300>>, deps |-> <<Deposit(1, 600), Deposit(2, 300), Deposit(1, 400)>>],
      [bal |-> <<1500, 0>>,   deps |-> <<Deposit(1, 1000)>>],
      [bal |-> <<500, 0>>,    deps |-> <<Deposit(1, 1000)>>] }

InitW ==
    /\ \E c \in WConfigs :
          /\ balance = [u \in Users |-> IF u <= Len(c.bal) THEN c.bal[u] ELSE 0]
          /\ deposits = c.deps
          /\ ext_refunded = [i \in 1..Len(c.deps) |-> 0]
    /\ init_balance = balance
    /\ withdrawals = <<>>
    /\ wpc = [w \in WMsgs |-> "new"]
    /\ wloc = [w \in WMsgs |-> NoWLocals]
    /\ pending_choice = [u \in Users |-> "none"]
    /\ bets = <<>>
    /\ sent = {}
    /\ pc = [m \in Msgs |-> "done"]
    /\ loc = [m \in Msgs |-> NoLocals]
    /\ applied = {}
    /\ call = NoCall

Min(a, b) == IF a <= b THEN a ELSE b

\* SELECT id, charge_id, amount, refunded FROM deposits WHERE user_id=? ORDER BY ts ASC
RECURSIVE SelectDeposits(_, _, _)
SelectDeposits(deps, uid, i) ==
    IF i > Len(deps) THEN <<>>
    ELSE IF deps[i].user_id = uid
    THEN <<[id |-> i, amount |-> deps[i].amount, refunded |-> deps[i].refunded]>>
             \o SelectDeposits(deps, uid, i + 1)
    ELSE SelectDeposits(deps, uid, i + 1)

\* The same rows, newest first.
RECURSIVE SelectDeposits_newest_first(_, _, _)
SelectDeposits_newest_first(deps, uid, i) ==
    IF i > Len(deps) THEN <<>>
    ELSE IF deps[i].user_id = uid
    THEN SelectDeposits_newest_first(deps, uid, i + 1)
             \o <<[id |-> i, amount |-> deps[i].amount, refunded |-> deps[i].refunded]>>
    ELSE SelectDeposits_newest_first(deps, uid, i + 1)

\* left = dep_amount - refunded, for a fetched row.
Left(row) == row.amount - row.refunded

\* The rows the for loop passes with `continue` before it awaits again: the
\* first index from i on with left > 0 and to_refund > 0, or Len(rows) + 1.
RECURSIVE SkipRows(_, _, _)
SkipRows(rows, i, to_refund) ==
    IF i > Len(rows) THEN i
    ELSE IF Left(rows[i]) <= 0 \/ to_refund <= 0 THEN SkipRows(rows, i + 1, to_refund)
    ELSE i

\* Where the handler stands after the loop: at add_balance if it refunded
\* anything, else at the INSERT if a rest remains, else at the final reply.
AfterLoop(l) ==
    IF l.auto_refunded > 0 THEN "debit"
    ELSE IF l.amount - l.auto_refunded > 0 THEN "insert"
    ELSE "reply"

\* The loop from row i on, up to its next await: <<position, locals>>.
LoopFrom(l, i) ==
    LET j == SkipRows(l.rows, i, l.to_refund) IN
    IF j > Len(l.rows)
    THEN <<AfterLoop(l), [l EXCEPT !.idx = j]>>
    ELSE <<"partial", [l EXCEPT !.idx = j, !.chunk = Min(Left(l.rows[j]), l.to_refund)]>>

\* withdraw_cmd, from the arrival of message w (user u, argument text) to its
\* first await (lines 294-299).
withdraw_start(w, u, text) ==
    /\ wpc[w] = "new"
    /\ \A k \in WMsgs : k < w => wpc[k] # "new"
    /\ IF ~text.digits
       THEN /\ wpc' = [wpc EXCEPT ![w] = "done"]
            /\ wloc' = [wloc EXCEPT ![w] = [NoWLocals EXCEPT !.uid = u, !.replied = "usage"]]
       ELSE /\ wpc' = [wpc EXCEPT ![w] = "get_balance"]
            /\ wloc' = [wloc EXCEPT ![w] = [NoWLocals EXCEPT !.uid = u, !.amount = text.value]]
    /\ UNCHANGED <<balance, deposits, withdrawals, ext_refunded, betVars>>

\* As withdraw_get_balance, without the test of the amount.
withdraw_get_balance_no_test(w) ==
    /\ wpc[w] = "get_balance"
    /\ wpc' = [wpc EXCEPT ![w] = "read_deposits"]
    /\ wloc' = [wloc EXCEPT ![w].bal = get_balance(wloc[w].uid)]
    /\ UNCHANGED <<balance, deposits, withdrawals, ext_refunded, betVars>>

\* bal = await get_balance(uid) and the test of the amount (lines 301-304).
withdraw_get_balance(w) ==
    /\ wpc[w] = "get_balance"
    /\ LET bal == get_balance(wloc[w].uid) IN
       IF wloc[w].amount <= 0 \/ wloc[w].amount > bal
       THEN /\ wpc' = [wpc EXCEPT ![w] = "done"]
            /\ wloc' = [wloc EXCEPT ![w].bal = bal, ![w].replied = "insufficient"]
       ELSE /\ wpc' = [wpc EXCEPT ![w] = "read_deposits"]
            /\ wloc' = [wloc EXCEPT ![w].bal = bal]
    /\ UNCHANGED <<balance, deposits, withdrawals, ext_refunded, betVars>>

\* As withdraw_read_deposits, with ORDER BY ts DESC.
withdraw_read_deposits_newest_first(w) ==
    /\ wpc[w] = "read_deposits"
    /\ LET rows == SelectDeposits_newest_first(deposits, wloc[w].uid, 1)
           l == [wloc[w] EXCEPT !.rows = rows, !.to_refund = wloc[w].amount,
                                !.auto_refunded = 0,
                                !.chunks = [i \in 1..Len(rows) |-> 0]]
           next == LoopFrom(l, 1)
       IN  /\ wpc' = [wpc EXCEPT ![w] = next[1]]
           /\ wloc' = [wloc EXCEPT ![w] = next[2]]
    /\ UNCHANGED <<balance, deposits, withdrawals, ext_refunded, betVars>>

\* The SELECT of the user's deposits, to_refund = amount, auto_refunded = 0 and
\* the loop up to its first refund call (lines 307-321).
withdraw_read_deposits(w) ==
    /\ wpc[w] = "read_deposits"
    /\ LET rows == SelectDeposits(deposits, wloc[w].uid, 1)
           l == [wloc[w] EXCEPT !.rows = rows, !.to_refund = wloc[w].amount,
                                !.auto_refunded = 0,
                                !.chunks = [i \in 1..Len(rows) |-> 0]]
           next == LoopFrom(l, 1)
       IN  /\ wpc' = [wpc EXCEPT ![w] = next[1]]
           /\ wloc' = [wloc EXCEPT ![w] = next[2]]
    /\ UNCHANGED <<balance, deposits, withdrawals, ext_refunded, betVars>>

\* bot.refund_star_payment(..., amount=chunk) returns (lines 325-330).  Telegram
\* refunds no more of a charge than was paid: the call can return only while
\* what it has refunded of the charge plus chunk is within the charge.
withdraw_partial_ok(w) ==
    /\ wpc[w] = "partial"
    /\ LET l == wloc[w]
           row == l.rows[l.idx]
       IN  /\ ext_refunded[row.id] + l.chunk <= row.amount
           /\ ext_refunded' = [ext_refunded EXCEPT ![row.id] = @ + l.chunk]
           /\ wloc' = [wloc EXCEPT ![w].new_refunded = row.refunded + l.chunk,
                                   ![w].reversed = @ + l.chunk,
                                   ![w].chunks[l.idx] = l.chunk]
    /\ wpc' = [wpc EXCEPT ![w] = "update"]
    /\ UNCHANGED <<balance, deposits, withdrawals, betVars>>

\* As withdraw_partial_fail, with the fallback tried for every deposit that is
\* not refunded yet, whatever remains to refund.
withdraw_partial_fail_always_full(w) ==
    /\ wpc[w] = "partial"
    /\ LET l == [wloc[w] EXCEPT !.failed = @ \cup {wloc[w].idx}]
           row == l.rows[l.idx]
           next == LoopFrom(l, l.idx + 1)
       IN  IF row.refunded = 0
           THEN /\ wpc' = [wpc EXCEPT ![w] = "full"]
                /\ wloc' = [wloc EXCEPT ![w] = l]
           ELSE /\ wpc' = [wpc EXCEPT ![w] = next[1]]
                /\ wloc' = [wloc EXCEPT ![w] = next[2]]
    /\ UNCHANGED <<balance, deposits, withdrawals, ext_refunded, betVars>>

\* bot.refund_star_payment(..., amount=chunk) raises (lines 331-334, 341-342):
\* on to the full refund, or `continue` up to the next refund call.
withdraw_partial_fail(w) ==
    /\ wpc[w] = "partial"
    /\ LET l == [wloc[w] EXCEPT !.failed = @ \cup {wloc[w].idx}]
           row == l.rows[l.idx]
           next == LoopFrom(l, l.idx + 1)
       IN  IF row.refunded = 0 /\ l.to_refund >= row.amount
           THEN /\ wpc' = [wpc EXCEPT ![w] = "full"]
                /\ wloc' = [wloc EXCEPT ![w] = l]
           ELSE /\ wpc' = [wpc EXCEPT ![w] = next[1]]
                /\ wloc' = [wloc EXCEPT ![w] = next[2]]
    /\ UNCHANGED <<balance, deposits, withdrawals, ext_refunded, betVars>>

\* The full refund returns (lines 335-340).  Telegram refunds a charge in full
\* only if it has refunded nothing of it.
withdraw_full_ok(w) ==
    /\ wpc[w] = "full"
    /\ LET l == wloc[w]
           row == l.rows[l.idx]
       IN  /\ ext_refunded[row.id] = 0
           /\ ext_refunded' = [ext_refunded EXCEPT ![row.id] = row.amount]
           /\ wloc' = [wloc EXCEPT ![w].new_refunded = row.amount,
                                   ![w].chunk = row.amount,
                                   ![w].reversed = @ + row.amount,
                                   ![w].chunks[l.idx] = row.amount,
                                   ![w].fulls = @ \cup {l.idx}]
    /\ wpc' = [wpc EXCEPT ![w] = "update"]
    /\ UNCHANGED <<balance, deposits, withdrawals, betVars>>

\* The full refund raises (line 335): the call stands in the except block, so
\* nothing catches the exception and the handler ends.
withdraw_full_fail(w) ==
    /\ wpc[w] = "full"
    /\ wpc' = [wpc EXCEPT ![w] = "raised"]
    /\ wloc' = [wloc EXCEPT ![w].raised_at = "full"]
    /\ UNCHANGED <<balance, deposits, withdrawals, ext_refunded, betVars>>

\* UPDATE deposits SET refunded=new_refunded WHERE id=dep_id, the bookkeeping
\* of the loop and the loop up to its next await (lines 344-351).
withdraw_update(w) ==
    /\ wpc[w] = "update"
    /\ LET l0 == wloc[w]
           row == l0.rows[l0.idx]
           l == [l0 EXCEPT !.to_refund = @ - l0.chunk,
                           !.auto_refunded = @ + l0.chunk,
                           !.written = @ \cup {row.id}]
           next == IF l.to_refund <= 0
                   THEN <<AfterLoop(l), l>>
                   ELSE LoopFrom(l, l.idx + 1)
       IN  /\ deposits' = [deposits EXCEPT ![row.id].refunded = l0.new_refunded]
           /\ wpc' = [wpc EXCEPT ![w] = next[1]]
           /\ wloc' = [wloc EXCEPT ![w] = next[2]]
    /\ UNCHANGED <<balance, withdrawals, ext_refunded, betVars>>

\* await add_balance(uid, -auto_refunded) (lines 354-357).
withdraw_debit(w) ==
    /\ wpc[w] = "debit"
    /\ balance' = add_balance(wloc[w].uid, -wloc[w].auto_refunded)
    /\ wloc' = [wloc EXCEPT ![w].debited = @ + wloc[w].auto_refunded]
    /\ wpc' = [wpc EXCEPT ![w] =
                  IF wloc[w].amount - wloc[w].auto_refunded > 0 THEN "insert" ELSE "reply"]
    /\ UNCHANGED <<deposits, withdrawals, ext_refunded, betVars>>

\* As WithdrawalRow, with the rest in place of the requested amount.
WithdrawalRow_rest_as_amount(w) ==
    [user_id |-> wloc[w].uid, amount |-> wloc[w].amount - wloc[w].auto_refunded,
     auto_refunded |-> wloc[w].auto_refunded, status |-> "pending", wid |-> w]

\* The withdrawals row of message w (wid tells which message inserted it).
WithdrawalRow(w) ==
    [user_id |-> wloc[w].uid, amount |-> wloc[w].amount,
     auto_refunded |-> wloc[w].auto_refunded, status |-> "pending", wid |-> w]

\* INSERT INTO withdrawals ... 'pending' and its commit (lines 359-364).
withdraw_insert(w) ==
    /\ wpc[w] = "insert"
    /\ withdrawals' = Append(withdrawals, WithdrawalRow(w))
    /\ wpc' = [wpc EXCEPT ![w] = "reply"]
    /\ UNCHANGED <<balance, deposits, ext_refunded, wloc, betVars>>

\* The final m.reply (lines 365-370).
withdraw_reply(w) ==
    /\ wpc[w] = "reply"
    /\ wloc' = [wloc EXCEPT ![w].replied =
                   IF wloc[w].amount - wloc[w].auto_refunded > 0 THEN "pending" ELSE "paid"]
    /\ wpc' = [wpc EXCEPT ![w] = "done"]
    /\ UNCHANGED <<balance, deposits, withdrawals, ext_refunded, betVars>>

\* The awaits of withdraw_cmd on the database and on the reply.
WAwaitPcs == {"get_balance", "read_deposits", "update", "debit", "insert", "reply"}

\* One of those awaits raises (or the process stops there): nothing in
\* withdraw_cmd catches it, what was committed or refunded before stays.
withdraw_raise(w) ==
    /\ wpc[w] \in WAwaitPcs
    /\ wpc' = [wpc EXCEPT ![w] = "raised"]
    /\ wloc' = [wloc EXCEPT ![w].raised_at = wpc[w]]
    /\ UNCHANGED <<balance, deposits, withdrawals, ext_refunded, betVars>>

NextW ==
    \/ \E w \in WMsgs, u \in Users, text \in WithdrawTexts : withdraw_start(w, u, text)
    \/ \E w \in WMsgs : withdraw_get_balance(w)
    \/ \E w \in WMsgs : withdraw_read_deposits(w)
    \/ \E w \in WMsgs : withdraw_partial_ok(w)
    \/ \E w \in WMsgs : withdraw_partial_fail(w)
    \/ \E w \in WMsgs : withdraw_full_ok(w)
    \/ \E w \in WMsgs : withdraw_full_fail(w)
    \/ \E w \in WMsgs : withdraw_update(w)
    \/ \E w \in WMsgs : withdraw_debit(w)
    \/ \E w \in WMsgs : withdraw_insert(w)
    \/ \E w \in WMsgs : withdraw_reply(w)
    \/ \E w \in WMsgs : withdraw_raise(w)

SpecW == InitW /\ [][NextW]_vars

\* One /withdraw message and one bet message, of users who may be the same;
\* user 1 has chosen heads.
InitWB ==
    /\ \E c \in WConfigs :
          /\ balance = [u \in Users |-> IF u <= Len(c.bal) THEN c.bal[u] ELSE 0]
          /\ deposits = c.deps
          /\ ext_refunded = [i \in 1..Len(c.deps) |-> 0]
    /\ init_balance = balance
    /\ withdrawals = <<>>
    /\ wpc = [w \in WMsgs |-> IF w = 1 THEN "new" ELSE "done"]
    /\ wloc = [w \in WMsgs |-> NoWLocals]
    /\ pending_choice = [u \in Users |-> IF u = 1 THEN "heads" ELSE "none"]
    /\ bets = <<>>
    /\ sent = {}
    /\ pc = [m \in Msgs |-> IF m = 1 THEN "new" ELSE "done"]
    /\ loc = [m \in Msgs |-> NoLocals]
    /\ applied = {}
    /\ call = NoCall

NextWB ==
    \/ \E w \in WMsgs, u \in Users, text \in WithdrawTexts : withdraw_start(w, u, text)
    \/ \E w \in WMsgs : withdraw_get_balance(w)
    \/ \E w \in WMsgs : withdraw_read_deposits(w)
    \/ \E w \in WMsgs : withdraw_partial_ok(w)
    \/ \E w \in WMsgs : withdraw_partial_fail(w)
    \/ \E w \in WMsgs : withdraw_full_ok(w)
    \/ \E w \in WMsgs : withdraw_full_fail(w)
    \/ \E w \in WMsgs : withdraw_update(w)
    \/ \E w \in WMsgs : withdraw_debit(w)
    \/ \E w \in WMsgs : withdraw_insert(w)
    \/ \E w \in WMsgs : withdraw_reply(w)
    \/ \E w \in WMsgs : withdraw_raise(w)
    \/ \E m \in Msgs, u \in Users, stake \in StakeInputs : place_bet_start(m, u, stake) /\ UNCHANGED wVars
    \/ \E m \in Msgs, s \in ServerSeeds, c \in ClientSeeds : place_bet_get_balance(m, s, c) /\ UNCHANGED wVars
    \/ \E m \in Msgs : place_bet_debit(m) /\ UNCHANGED wVars
    \/ \E m \in Msgs : place_bet_credit(m) /\ UNCHANGED wVars
    \/ \E m \in Msgs : place_bet_log(m) /\ UNCHANGED wVars
    \/ \E m \in Msgs : place_bet_get_balance2(m) /\ UNCHANGED wVars
    \/ \E m \in Msgs : place_bet_answer(m) /\ UNCHANGED wVars
    \/ \E m \in Msgs : place_bet_raise(m) /\ UNCHANGED wVars

SpecWB == InitWB /\ [][NextWB]_vars

(* ------------------------- derived quantities ------------------------- *)

RECURSIVE SumBalance(_, _)
SumBalance(bal, S) ==
    IF S = {} THEN 0
    ELSE LET u == CHOOSE v \in S : TRUE
         IN  bal[u] + SumBalance(bal, S \ {u})

TotalBalance == SumBalance(balance, Users)

TotalInit == SumBalance(init_balance, Users)

\* Sum of stake - payout over the bets rows of user u, from row i on.
RECURSIVE NetStakes(_, _)
NetStakes(u, i) ==
    IF i > Len(bets) THEN 0
    ELSE (IF bets[i].user_id = u THEN bets[i].stake - bets[i].payout ELSE 0)
         + NetStakes(u, i + 1)

\* No handler is in flight.
Quiescent == \A m \in Msgs : pc[m] \in {"new", "done"}

Settlements == {msg \in sent : msg.kind = "settlement"}

(* ------------------------------- claims ------------------------------- *)

\* C1: under any interleaving of place_bet handlers of one account, the account
\* balance is never negative.
C1_BalanceNeverNegative == \A u \in Users : balance[u] >= 0

\* C2: once every in-flight round of an account has finished, its balance is the
\* initial balance minus the stakes plus the payouts of its settled rounds (the
\* rows of bets).
C2_BalanceIsInitialMinusStakesPlusPayouts ==
    Quiescent => \A u \in Users : balance[u] = init_balance[u] - NetStakes(u, 1)

\* C3: the Resolved step is all-or-nothing: no quiescent state has a stake debited
\* from an account without a row of that round in bets.
C3_NoDebitWithoutRecord ==
    Quiescent =>
        \A a \in applied :
            a.delta < 0 => \E i \in DOMAIN bets : bets[i].mid = a.mid

\* C4 (as stated): with no deposits, withdrawals or top-ups, the sum of all
\* balances after any sequence of settled rounds is at most the sum before.
C4_SumNeverIncreases == Quiescent => TotalBalance <= TotalInit

\* A step of a round of message m that wins: the credit of its nonzero payout,
\* the outcome being edge or the chosen side.
WinningCredit(m) ==
    /\ pc[m] = "credit"
    /\ pc'[m] = "log"
    /\ loc[m].prize > loc[m].stake
    /\ loc[m].outcome = "edge" \/ loc[m].outcome = loc[m].side
    /\ TotalBalance' = TotalBalance + loc[m].prize

\* The debit of the stake of the round of message m.
StakeDebit(m) ==
    /\ pc[m] = "debit"
    /\ TotalBalance' = TotalBalance - loc[m].stake

\* C4 (amended): the sum of all balances falls only by the stake of a round at
\* its debit and rises only by the payout credited to a winning round (outcome =
\* chosen side, or edge), whose payout exceeds its stake; no other step changes it.
C4_SumChangesOnlyByStakeAndWinningPayout ==
    [][ /\ TotalBalance' > TotalBalance => \E m \in Msgs : WinningCredit(m)
        /\ TotalBalance' < TotalBalance => \E m \in Msgs : StakeDebit(m) ]_vars

\* C4 witness: all rounds are over, one was settled with a payout above its stake,
\* and the sum of the balances is above the initial sum.
C4_Witness ==
    /\ Quiescent
    /\ TotalBalance > TotalInit
    /\ \E i \in DOMAIN bets : bets[i].payout > bets[i].stake

\* C5: every row of bets is re-verifiable from its own fields: its outcome is the
\* outcome of rng_roll on the stored seeds and nonce, and its payout is payout_for
\* of the stored outcome, side and stake.
C5_BetsReverifiable ==
    \A i \in DOMAIN bets :
        /\ bets[i].outcome =
               rng_roll(bets[i].server_seed, bets[i].client_seed, bets[i].nonce)[1]
        /\ bets[i].payout = payout_for(bets[i].outcome, bets[i].side, bets[i].stake)

\* C5 witness: rows of two rounds with different outcomes, one of them paid.
C5_Witness ==
    \E i, j \in DOMAIN bets :
        /\ bets[i].outcome = "edge" /\ bets[i].payout > 0
        /\ bets[j].outcome = "tails" /\ bets[j].payout = 0

\* C6: for every row of bets and every disclosed round, the commit hash equals
\* make_commit of the server seed stored or disclosed with that round.
C6_CommitMatchesSeed ==
    /\ \A i \in DOMAIN bets : bets[i].commit_hash = make_commit(bets[i].server_seed)
    /\ \A msg \in Settlements : msg.commit = make_commit(msg.server_seed)

\* C6 witness: two rounds with different server seeds are recorded and disclosed.
C6_Witness ==
    \E a, b \in Settlements :
        /\ a.server_seed # b.server_seed
        /\ \E i, j \in DOMAIN bets :
              /\ bets[i].mid = a.mid /\ bets[i].server_seed = a.server_seed
              /\ bets[j].mid = b.mid /\ bets[j].server_seed = b.server_seed

\* C7: a round is never disclosed without its record: every settlement message
\* sent answers a message whose row is in bets, with the disclosed fields.
C7_DisclosedOnlyAfterRecord ==
    \A msg \in Settlements :
        \E i \in DOMAIN bets :
            /\ bets[i].mid = msg.mid
            /\ bets[i].outcome = msg.outcome
            /\ bets[i].payout = msg.prize
            /\ bets[i].stake = msg.stake
            /\ bets[i].server_seed = msg.server_seed
            /\ bets[i].client_seed = msg.client_seed
            /\ bets[i].nonce = msg.nonce
            /\ bets[i].commit_hash = msg.commit

\* C7 witness: a settlement has been sent while another handler has debited its
\* stake and not yet logged its round.
C7_Witness ==
    /\ Settlements # {}
    /\ \E m \in Msgs : pc[m] \in {"credit", "log"}

\* C8: payout_for pays the edge multiplier whenever the outcome is edge, whatever
\* side was chosen; on heads or tails it pays the side multiplier (stake * 1.75
\* to the nearest integer) if the outcome is the chosen side and 0 otherwise.
C8_PayoutRule ==
    (call.fn = "payout_for" /\ call.returned) =>
        IF call.outcome = "edge"
        THEN call.payout * MultDen = call.stake * MULT_EDGE
        ELSE IF call.outcome = call.chosen
        THEN /\ 2 * (call.payout * MultDen - call.stake * MULT_SIDE) <= MultDen
             /\ 2 * (call.stake * MULT_SIDE - call.payout * MultDen) <= MultDen
        ELSE call.payout = 0

\* C8 witness: the outcome is edge, the chosen side is heads, and eight times the
\* stake was paid.
C8_Witness ==
    /\ call.fn = "payout_for" /\ call.returned
    /\ call.outcome = "edge" /\ call.chosen = "heads"
    /\ call.stake = 1000 /\ call.payout = 8000

\* C9: for every stake in [MIN_BET, MAX_BET] the payout of a winning side bet is
\* stake * 1.75 rounded half away from zero, floor((7 * stake + 2) / 4).
C9_SidePayoutRoundsHalfAwayFromZero ==
    (call.fn = "payout_for" /\ call.returned
        /\ call.outcome # "edge" /\ call.outcome = call.chosen) =>
        call.payout = (7 * call.stake + 2) \div 4

\* C10: rng_roll maps x in [0, 1) to one outcome by left-closed intervals in the
\* order heads, edge, tails: heads iff x < 0.495, edge iff 0.495 <= x < 0.505,
\* tails iff x >= 0.505.
C10_OutcomeIntervals ==
    (call.fn = "rng_roll" /\ call.returned) =>
        /\ 0 <= call.x /\ call.x < XScale
        /\ call.outcome \in Sides
        /\ call.outcome = "heads" <=> call.x * 1000 < 495 * XScale
        /\ call.outcome = "edge" <=>
              (495 * XScale <= call.x * 1000 /\ call.x * 1000 < 505 * XScale)
        /\ call.outcome = "tails" <=> call.x * 1000 >= 505 * XScale

\* C10 witness: x = 0.495, the left end of the edge interval, rolls edge.
C10_Witness ==
    /\ call.fn = "rng_roll" /\ call.returned
    /\ call.x * 1000 = 495 * XScale
    /\ call.outcome = "edge"

\* The round of message m has its stake debited and its payout, if any, credited;
\* it staked 1000 on tails and rolled x = 0.80; no other round has touched the
\* balance of its account.
C11_Round(m) ==
    /\ pc[m] \in {"log", "get_balance2", "answer"}
    /\ loc[m].stake = 1000
    /\ loc[m].side = "tails"
    /\ loc[m].x * 10 = 8 * XScale
    /\ \A a \in applied : a.uid = loc[m].uid => a.mid = m

\* C11 (as stated): a bet of 1000 on tails whose roll is x = 0.80 has outcome
\* tails, payout 0 and changes the account balance by -1000.
C11_TailsBetAtX080PaysNothing ==
    \A m \in Msgs :
        C11_Round(m) =>
            /\ loc[m].outcome = "tails"
            /\ loc[m].prize = 0
            /\ balance[loc[m].uid] = init_balance[loc[m].uid] - 1000

\* C11 (amended): a bet of 1000 on tails whose roll is x = 0.80 has outcome tails,
\* which is the chosen side: the payout is 1750 and the balance changes by +750.
C11_TailsBetAtX080Wins ==
    \A m \in Msgs :
        C11_Round(m) =>
            /\ loc[m].outcome = "tails"
            /\ loc[m].prize = 1750
            /\ balance[loc[m].uid] = init_balance[loc[m].uid] + 750

\* C11 witness: such a round has been logged and its account holds 1750.
C11_Witness ==
    \E m \in Msgs :
        /\ C11_Round(m)
        /\ pc[m] = "answer"
        /\ init_balance[loc[m].uid] = 1000
        /\ balance[loc[m].uid] = 1750
        /\ \E i \in DOMAIN bets : bets[i].mid = m /\ bets[i].payout = 1750

Rejections == {msg \in sent : msg.kind \in {"bad_amount", "no_side", "insufficient"}}

\* C12: a place_bet request that is rejected (stake outside [MIN_BET, MAX_BET], no
\* legal side selected, or balance < stake) changes no balance and appends no row
\* to bets: its handler has committed no add_balance and no INSERT.
C12_RejectedBetChangesNothing ==
    \A msg \in Rejections :
        /\ \A a \in applied : a.mid # msg.mid
        /\ \A i \in DOMAIN bets : bets[i].mid # msg.mid

\* C12 witness: one request was rejected for insufficient funds and another for
\* its amount.
C12_Witness ==
    /\ \E msg \in Rejections : msg.kind = "insufficient"
    /\ \E msg \in Rejections : msg.kind = "bad_amount"

(* ------------------------------ withdrawals ------------------------------ *)

\* The run of message w has read the balance (it is past line 301).
HasReadBalance(w) ==
    /\ wpc[w] \notin {"new", "get_balance"}
    /\ wloc[w].replied # "usage"
    /\ wloc[w].raised_at # "get_balance"

\* The run of message w ended with one of the two final replies.
EndedNormally(w) == wpc[w] = "done" /\ wloc[w].replied \in {"paid", "pending"}

\* The withdrawals rows inserted by the run of message w.
RowsOf(w) == {i \in 1..Len(withdrawals) : withdrawals[i].wid = w}

\* The sum of the first n entries of a sequence of numbers.
RECURSIVE SumFirst(_, _)
SumFirst(seq, n) == IF n = 0 THEN 0 ELSE SumFirst(seq, n - 1) + seq[n]

\* C13: a /withdraw whose amount is not positive or exceeds the balance that
\* withdraw_cmd read is rejected: the run ends with the "insufficient" reply,
\* has called no refund, written no deposits row, taken nothing from the
\* balance and inserted no withdrawals row.
C13_RejectedWithdrawalChangesNothing ==
    \A w \in WMsgs :
        (HasReadBalance(w) /\ (wloc[w].amount <= 0 \/ wloc[w].amount > wloc[w].bal))
            => /\ wpc[w] = "done"
               /\ wloc[w].replied = "insufficient"
               /\ wloc[w].reversed = 0
               /\ wloc[w].written = {}
               /\ wloc[w].debited = 0
               /\ RowsOf(w) = {}

\* A request above a positive balance of a user with an unrefunded deposit,
\* and a request of 0, both rejected.
C13_Witness ==
    /\ \E w \in WMsgs :
          /\ HasReadBalance(w)
          /\ wloc[w].amount > wloc[w].bal
          /\ wloc[w].bal > 0
          /\ \E i \in 1..Len(deposits) :
                deposits[i].user_id = wloc[w].uid /\ deposits[i].refunded = 0
    /\ \E w \in WMsgs : HasReadBalance(w) /\ wloc[w].amount = 0

\* C14: an accepted withdrawal walks the user's deposits oldest first; every
\* refund it obtains from a deposit is min(unreversed amount, remaining
\* requested amount); while no refund call fails, a deposit is touched only
\* after every earlier one is fully reversed; and deposits of 600 and 400 with
\* a request of 700 end refunded 600 and 100, auto_refunded 700, no pending row.
C14_OldestFirstMinChunks ==
    \A w \in WMsgs :
        LET l == wloc[w] IN
        /\ \A i, j \in 1..Len(l.rows) : i < j => l.rows[i].id < l.rows[j].id
        /\ \A i \in 1..Len(l.rows) :
              l.chunks[i] > 0 =>
                 /\ l.chunks[i] = Min(Left(l.rows[i]), l.amount - SumFirst(l.chunks, i - 1))
                 /\ l.failed = {} =>
                       \A j \in 1..(i - 1) :
                          l.chunks[j] = IF Left(l.rows[j]) > 0 THEN Left(l.rows[j]) ELSE 0
        /\ ( /\ EndedNormally(w)
             /\ l.failed = {}
             /\ \A k \in WMsgs \ {w} : wloc[k].written = {}
             /\ l.amount = 700
             /\ Len(l.rows) = 2
             /\ l.rows[1].amount = 600 /\ l.rows[1].refunded = 0
             /\ l.rows[2].amount = 400 /\ l.rows[2].refunded = 0 )
           => /\ deposits[l.rows[1].id].refunded = 600
              /\ deposits[l.rows[2].id].refunded = 100
              /\ l.auto_refunded = 700
              /\ RowsOf(w) = {}

\* The scenario has run: 700 withdrawn from deposits of 600 and 400.
C14_Witness ==
    \E w \in WMsgs :
        /\ EndedNormally(w)
        /\ wloc[w].failed = {}
        /\ wloc[w].amount = 700
        /\ wloc[w].chunks = <<600, 100>>
        /\ \A k \in WMsgs \ {w} : wloc[k].written = {}

\* C15: when an accepted withdrawal completes, 0 <= auto_refunded <= requested
\* amount, and a withdrawals row with status 'pending' carrying the requested
\* and the auto-refunded amount exists if and only if the shortfall
\* (requested - auto_refunded) is > 0; with balance 1500, one unrefunded
\* deposit of 1000 and a request of 1500, auto_refunded is 1000 and the row
\* leaves a remainder of 500.
C15_PendingRowIffShortfall ==
    \A w \in WMsgs :
        EndedNormally(w) =>
            LET l == wloc[w]
                shortfall == l.amount - l.auto_refunded
            IN  /\ 0 <= l.auto_refunded /\ l.auto_refunded <= l.amount
                /\ l.auto_refunded + shortfall = l.amount
                /\ (shortfall > 0) <=> (RowsOf(w) # {})
                /\ (shortfall > 0) <=> (l.replied = "pending")
                /\ \A i, j \in RowsOf(w) : i = j
                /\ \A i \in RowsOf(w) :
                      /\ withdrawals[i].user_id = l.uid
                      /\ withdrawals[i].amount = l.amount
                      /\ withdrawals[i].auto_refunded = l.auto_refunded
                      /\ withdrawals[i].status = "pending"
                /\ ( /\ l.bal = 1500 /\ l.amount = 1500 /\ l.failed = {}
                     /\ Len(l.rows) = 1
                     /\ l.rows[1].amount = 1000 /\ l.rows[1].refunded = 0 )
                   => /\ l.auto_refunded = 1000
                      /\ \E i \in RowsOf(w) :
                            withdrawals[i].amount - withdrawals[i].auto_refunded = 500

\* The scenario has run: auto_refunded 1000 of 1500 and a pending row.
C15_Witness ==
    \E w \in WMsgs :
        /\ EndedNormally(w)
        /\ wloc[w].bal = 1500 /\ wloc[w].amount = 1500 /\ wloc[w].failed = {}
        /\ wloc[w].auto_refunded = 1000
        /\ RowsOf(w) # {}

\* C16: each run of withdraw_cmd decreases the balance by exactly the total it
\* got refunded through the external refund call, whether it ends normally
\* or by an exception from an external call or a database write.
C16_DebitEqualsReversed ==
    \A w \in WMsgs :
        wpc[w] \in {"done", "raised"} => wloc[w].debited = wloc[w].reversed

\* C17: a failure of the external refund call for one deposit, the partial
\* attempt or the full-refund fallback, never aborts the withdrawal: no run
\* is ended by an exception of a refund call, and a run with a failed refund
\* call that ends has debited what it reversed and recorded its shortfall.
C17_RefundFailureNeverAborts ==
    \A w \in WMsgs :
        /\ wloc[w].raised_at # "full"
        /\ (wloc[w].failed # {} /\ wpc[w] \in {"done", "raised"}
               /\ wloc[w].raised_at \notin WAwaitPcs)
              => /\ wloc[w].debited = wloc[w].reversed
                 /\ wloc[w].amount - wloc[w].auto_refunded > 0 => RowsOf(w) # {}

\* C18: while withdrawals run interleaved with bets or other withdrawals of
\* the same account, the balance of an account with a withdrawal is never
\* negative.
C18_BalanceNeverNegativeUnderWithdrawal ==
    \A u \in Users :
        (\E w \in WMsgs : wpc[w] # "new" /\ wloc[w].uid = u) => get_balance(u) >= 0

\* The step of run w in which the partial refund of its current row raises.
PartialFails(w) ==
    /\ wpc[w] = "partial"
    /\ wloc'[w].failed # wloc[w].failed

\* C19: when the partial refund of a deposit raises, withdraw_cmd tries the full
\* refund only if the row's refunded is 0 and to_refund >= the deposit's
\* amount, and a full refund that returns counts the whole deposit amount
\* (chunk = new_refunded = amount, written and added to auto_refunded);
\* otherwise the deposit is skipped: no refund call, deposits, to_refund and
\* auto_refunded unchanged.
C19_FallbackRule ==
    [][ \A w \in WMsgs :
          LET l == wloc[w]
              l2 == wloc'[w]
              row == l.rows[l.idx]
          IN  /\ PartialFails(w) =>
                    IF row.refunded = 0 /\ l.to_refund >= row.amount
                    THEN wpc'[w] = "full" /\ l2.idx = l.idx
                    ELSE /\ wpc'[w] # "full"
                         /\ l2.idx > l.idx
                         /\ deposits' = deposits
                         /\ ext_refunded' = ext_refunded
                         /\ l2.to_refund = l.to_refund
                         /\ l2.auto_refunded = l.auto_refunded
              /\ (wpc'[w] = "full" /\ wpc[w] # "full") =>
                    /\ PartialFails(w)
                    /\ row.refunded = 0
                    /\ l.to_refund >= row.amount
              /\ (wpc[w] = "full" /\ wpc'[w] = "update") =>
                    /\ l2.chunk = row.amount
                    /\ l2.new_refunded = row.amount
                    /\ l2.reversed = l.reversed + row.amount
              /\ (wpc[w] = "update" /\ l.idx \in l.fulls /\ wpc'[w] \notin {"update", "raised"}) =>
                    /\ deposits'[row.id].refunded = row.amount
                    /\ l2.auto_refunded = l.auto_refunded + row.amount
                    /\ l2.to_refund = l.to_refund - row.amount
      ]_vars

\* A run that ended after a full refund of one deposit (partial refund
\* raised, refunded 0, to_refund covering it) and a skip of another (partial
\* refund raised, to_refund below its amount).
C19_Witness ==
    \E w \in WMsgs :
        /\ EndedNormally(w)
        /\ wloc[w].fulls # {}
        /\ \E i \in wloc[w].failed \ wloc[w].fulls :
              /\ wloc[w].chunks[i] = 0
              /\ wloc[w].rows[i].refunded = 0

\* C20: in every state where no withdrawal is in progress (each /withdraw run
\* has ended with its reply or has not begun), every deposit's stored refunded
\* equals what Telegram has refunded of it, and so is <= its amount, also after
\* two withdrawals of one account ran concurrently.
C20_RefundedMatchesReversed ==
    (\A w \in WMsgs : wpc[w] \in {"new", "done"})
        => \A i \in 1..Len(deposits) :
              /\ deposits[i].refunded = ext_refunded[i]
              /\ deposits[i].refunded <= deposits[i].amount

=============================================================================
